---- MODULE Spec2Model ----
(***************************************************************************)
(* Connection core of jkmp-backend-matchmaking (src/src/main.rs).          *)
(*                                                                         *)
(* One Listener task (main) accepts sockets and spawns one Connection      *)
(* Actor task (the async block of process_client) per socket.  The actors  *)
(* share State.clients, a HashMap<SocketAddr, Client> behind a tokio       *)
(* Mutex.  Every await of the source is a suspension point and is a        *)
(* separate position (pc) of the actor.                                    *)
(***************************************************************************)
EXTENDS Integers, Sequences, FiniteSets, TLC

\* ---------------------------------------------------------------- bounds
MaxConns == 2        \* sockets accepted during one run
NumAddrs == 2        \* distinct peer addresses
MaxSteamId == 1      \* steam ids carried by handshake requests: 1..MaxSteamId
MaxEnq == 2          \* messages enqueued on all outbound channels together
MaxFrames == 3       \* frames and read errors all the sockets yield together

Conns == 1..MaxConns
Addrs == 1..NumAddrs
SteamIds == 1..MaxSteamId

NoAddr == 0          \* address of a task that was not spawned yet
Free == 0            \* the mutex is not held

\* ---------------------------------------------------------------- messages
\* enum Message: the variant the handshake matches on, and any other one.
HandshakeRequest(s) == [type |-> "HandshakeRequest", steam_id |-> s]
Other == [type |-> "Other", steam_id |-> 0]
Message == {HandshakeRequest(s) : s \in SteamIds} \cup {Other}
NoMessage == [type |-> "NoMessage", steam_id |-> 0]

\* What messages.next().await resolves to: Option<Result<Message, Error>>.
SomeOk(m) == [kind |-> "SomeOk", msg |-> m]
SomeErr == [kind |-> "SomeErr", msg |-> NoMessage]
None == [kind |-> "None", msg |-> NoMessage]
NotRead == [kind |-> "NotRead", msg |-> NoMessage]

\* ---------------------------------------------------------------- state
VARIABLES
  pc,          \* position of every Connection Actor task
  address,     \* peer address of the socket the task was spawned for
  peer,        \* "open" | "closed": whether the peer still holds the connection
  arrived,     \* a frame of the peer is buffered on the socket, not read yet
  has_errored, \* the Framed stream yielded Some(Err) before
  first,       \* what the handshake read resolved to
  message,     \* the message handed to handle_message
  clients,     \* State.clients
  lock,        \* holder of the Mutex<State>, or Free
  rx,          \* buffer of the task's unbounded channel
  outbound_message, \* the message taken from rx that is being sent
  written,     \* messages written to the socket, in order
  enqueued,    \* messages ever sent on the task's channel, in order
  inserts,     \* number of clients.insert calls of the task
  removes,     \* number of clients.remove calls of the task
  dispatches,  \* number of handle_message calls of the task
  exit_cause,  \* which break left the loop: "send" | "dispatch" | "eof"
  accepted,    \* number of sockets accepted by the Listener
  frames,      \* number of Some(..) results the Framed streams yielded
  sent,        \* number of frames the peer has sent on the connection
  decoded,     \* arrival numbers of the frames that decoded to Some(Ok), in order
  dispatched,  \* arrival numbers of the messages passed to handle_message, in order
  result       \* what the Listener's last accept() resolved to

vars == <<pc, address, peer, arrived, has_errored, first, message, clients, lock, rx,
          outbound_message, written, enqueued, inserts, removes, dispatches,
          exit_cause, accepted, frames, sent, decoded, dispatched, result>>

\* What a step of the Listener leaves alone.
actorVars == <<pc, address, peer, arrived, has_errored, first, message, rx,
               outbound_message, written, enqueued, inserts, removes,
               dispatches, sent, decoded, dispatched, exit_cause>>

\* What no step of a Connection Actor touches.
listenerVars == <<address, peer, enqueued, accepted, result>>

NoClient == [tx |-> 0, steam_id |-> 0, name |-> "absent"]

\* Client::new(tx): the handle owns the sender of the task's channel.
ClientNew(tx) == [tx |-> tx, steam_id |-> 0, name |-> ""]

\* State::new(): an empty map.
StateNew == [a \in Addrs |-> NoClient]

Contains(a) == clients[a] # NoClient

\* The task holds its socket from the spawn until the async block returns.
SocketOpen(i) == pc[i] \notin {"idle", "rejected", "done"}

TotalEnqueued == LET RECURSIVE Sum(_)
                     Sum(i) == IF i = 0 THEN 0 ELSE Len(enqueued[i]) + Sum(i - 1)
                 IN Sum(MaxConns)

Init ==
  /\ pc = [i \in Conns |-> "idle"]
  /\ address = [i \in Conns |-> NoAddr]
  /\ peer = [i \in Conns |-> "open"]
  /\ arrived = [i \in Conns |-> FALSE]
  /\ has_errored = [i \in Conns |-> FALSE]
  /\ first = [i \in Conns |-> NotRead]
  /\ message = [i \in Conns |-> NoMessage]
  /\ clients = StateNew
  /\ lock = Free
  /\ rx = [i \in Conns |-> <<>>]
  /\ outbound_message = [i \in Conns |-> 0]
  /\ written = [i \in Conns |-> <<>>]
  /\ enqueued = [i \in Conns |-> <<>>]
  /\ inserts = [i \in Conns |-> 0]
  /\ removes = [i \in Conns |-> 0]
  /\ dispatches = [i \in Conns |-> 0]
  /\ sent = [i \in Conns |-> 0]
  /\ decoded = [i \in Conns |-> <<>>]
  /\ dispatched = [i \in Conns |-> <<>>]
  /\ exit_cause = [i \in Conns |-> "none"]
  /\ accepted = 0
  /\ frames = 0
  /\ result = "none"

\* ---------------------------------------------------------------- Listener
\* The kernel hands out a peer address again only when no established
\* connection of that address is left: the task dropped the socket, or the
\* peer closed or reset the connection.
AddressAvailable(a) ==
  \A j \in Conns : (address[j] = a /\ SocketOpen(j)) => peer[j] = "closed"

AcceptOk_awaitsTask(a) ==
  /\ accepted < MaxConns
  /\ AddressAvailable(a)
  /\ \A j \in Conns : pc[j] \in {"idle", "rejected", "done"}
  /\ accepted' = accepted + 1
  /\ pc' = [pc EXCEPT ![accepted + 1] = "handshake"]
  /\ address' = [address EXCEPT ![accepted + 1] = a]
  /\ result' = "Ok"
  /\ UNCHANGED <<peer, arrived, has_errored, first, message, clients, lock,
                 rx, outbound_message, written, enqueued, inserts, removes,
                 dispatches, sent, decoded, dispatched, exit_cause, frames>>

\* main, Ok((socket, address)) arm: process_client spawns the task and returns.
AcceptOk(a) ==
  /\ accepted < MaxConns
  /\ AddressAvailable(a)
  /\ accepted' = accepted + 1
  /\ pc' = [pc EXCEPT ![accepted + 1] = "handshake"]
  /\ address' = [address EXCEPT ![accepted + 1] = a]
  /\ result' = "Ok"
  /\ UNCHANGED <<peer, arrived, has_errored, first, message, clients, lock,
                 rx, outbound_message, written, enqueued, inserts, removes,
                 dispatches, sent, decoded, dispatched, exit_cause, frames>>

\* main, Err(error) arm: println and loop.
AcceptErr_returns ==
  /\ accepted < MaxConns
  /\ result' = "Err"
  /\ accepted' = MaxConns
  /\ UNCHANGED <<actorVars, clients, lock, frames>>

AcceptErr ==
  /\ accepted < MaxConns
  /\ result' = "Err"
  /\ UNCHANGED <<actorVars, clients, lock, accepted, frames>>

\* ---------------------------------------------------------------- peer
\* The peer closes or resets the connection.
PeerClose(i) ==
  /\ SocketOpen(i)
  /\ peer[i] = "open"
  /\ peer' = [peer EXCEPT ![i] = "closed"]
  /\ UNCHANGED <<pc, address, arrived, has_errored, first, message, clients,
                 lock, rx, outbound_message, written, enqueued, inserts,
                 removes, dispatches, sent, decoded, dispatched, exit_cause, accepted, frames, result>>

\* The peer sends a frame; it waits in the socket until the task reads it.
PeerSend(i) ==
  /\ SocketOpen(i)
  /\ peer[i] = "open"
  /\ ~arrived[i]
  /\ frames < MaxFrames
  /\ arrived' = [arrived EXCEPT ![i] = TRUE]
  /\ frames' = frames + 1
  /\ sent' = [sent EXCEPT ![i] = @ + 1]
  /\ UNCHANGED <<pc, address, peer, has_errored, first, message, clients,
                 lock, rx, outbound_message, written, enqueued, inserts,
                 removes, dispatches, decoded, dispatched, exit_cause,
                 accepted, result>>

\* messages.next(): a buffered frame decodes to a message or to an error;
\* with nothing buffered the stream of a peer that is gone ends, or fails
\* with an I/O error.  After Some(Err) the stream of tokio-util either ends
\* (None, from 0.6.9 on) or goes on reading (before), depending on the
\* version the build resolves.
Next_(i) ==
  (IF arrived[i] THEN {SomeOk(m) : m \in Message} \cup {SomeErr} ELSE {})
  \cup (IF ~arrived[i] /\ peer[i] = "closed" /\ frames < MaxFrames
        THEN {SomeErr} ELSE {})
  \cup (IF (~arrived[i] /\ peer[i] = "closed") \/ has_errored[i]
        THEN {None} ELSE {})

\* An I/O error is counted when it is read, a frame when it arrives.
Counted(i, r) == IF r.kind = "SomeErr" /\ ~arrived[i] THEN 1 ELSE 0

\* The frame a Some(..) result was decoded from has left the socket.
Consumed(i, r) == IF r.kind = "None" THEN arrived[i] ELSE FALSE

\* A Some(Ok) result is the decoding of the buffered frame, the latest the
\* peer sent.
Decoded(i, r) == IF r.kind = "SomeOk" THEN <<sent[i]>> ELSE <<>>

\* ---------------------------------------------------------------- actor
IsHandshakeRequest(r) == r.kind = "SomeOk" /\ r.msg.type = "HandshakeRequest"

AfterHandshake_fallthrough(r) ==
  IF r.kind = "SomeOk" THEN "lock_insert" ELSE "rejected"

\* Lines 67-88: every arm of the handshake match but the first one returns.
AfterHandshake(r) == IF IsHandshakeRequest(r) THEN "lock_insert" ELSE "rejected"

Handshake_replies(i) ==
  /\ pc[i] = "handshake"
  /\ \E r \in Next_(i) :
       /\ first' = [first EXCEPT ![i] = r]
       /\ frames' = frames + Counted(i, r)
       /\ arrived' = [arrived EXCEPT ![i] = Consumed(i, r)]
       /\ has_errored' = [has_errored EXCEPT ![i] = @ \/ r = SomeErr]
       /\ decoded' = [decoded EXCEPT ![i] = @ \o Decoded(i, r)]
       /\ pc' = [pc EXCEPT ![i] = AfterHandshake(r)]
       /\ written' = [written EXCEPT ![i] =
                        IF r.kind = "SomeOk" THEN Append(@, 0) ELSE @]
  /\ UNCHANGED <<listenerVars, message, clients, lock, rx, outbound_message,
                 inserts, removes, dispatches, sent, dispatched, exit_cause>>

\* Line 67: match messages.next().await.
Handshake(i) ==
  /\ pc[i] = "handshake"
  /\ \E r \in Next_(i) :
       /\ first' = [first EXCEPT ![i] = r]
       /\ frames' = frames + Counted(i, r)
       /\ arrived' = [arrived EXCEPT ![i] = Consumed(i, r)]
       /\ has_errored' = [has_errored EXCEPT ![i] = @ \/ r = SomeErr]
       /\ decoded' = [decoded EXCEPT ![i] = @ \o Decoded(i, r)]
       /\ pc' = [pc EXCEPT ![i] = AfterHandshake(r)]
  /\ UNCHANGED <<listenerVars, message, clients, lock, rx, outbound_message,
                 written, inserts, removes, dispatches, sent, dispatched,
                 exit_cause>>

\* state.lock().await of line 71 or line 114.
Lock(i) ==
  /\ pc[i] \in {"lock_insert", "lock_remove"}
  /\ lock = Free
  /\ lock' = i
  /\ pc' = [pc EXCEPT ![i] = IF pc[i] = "lock_insert" THEN "insert" ELSE "remove"]
  /\ UNCHANGED <<listenerVars, arrived, has_errored, first, message, clients, rx,
                 outbound_message, written, inserts, removes, dispatches, sent, decoded, dispatched,
                 exit_cause, frames>>

Insert_keepsGuard(i) ==
  /\ pc[i] = "insert"
  /\ lock = i
  /\ clients' = [clients EXCEPT ![address[i]] = ClientNew(i)]
  /\ inserts' = [inserts EXCEPT ![i] = @ + 1]
  /\ pc' = [pc EXCEPT ![i] = "select"]
  /\ UNCHANGED <<listenerVars, arrived, has_errored, first, message, rx, lock,
                 outbound_message, written, removes, dispatches, sent, decoded, dispatched, exit_cause,
                 frames>>

\* Lines 70-71: clients.insert(address, Client::new(tx)); HashMap::insert puts
\* the new value in place of an old one.  The guard is dropped with the
\* statement.
Insert(i) ==
  /\ pc[i] = "insert"
  /\ lock = i
  /\ clients' = [clients EXCEPT ![address[i]] = ClientNew(i)]
  /\ inserts' = [inserts EXCEPT ![i] = @ + 1]
  /\ lock' = Free
  /\ pc' = [pc EXCEPT ![i] = "select"]
  /\ UNCHANGED <<listenerVars, arrived, has_errored, first, message, rx,
                 outbound_message, written, removes, dispatches, sent, decoded, dispatched, exit_cause,
                 frames>>

Recv_newest(q) == q[Len(q)]

\* Line 92: Some(outbound_message) = rx.recv() takes the oldest message.
Recv(q) == Head(q)

OutboundReady_afterInbound(i) == rx[i] # <<>> /\ ~arrived[i]

\* Line 92: the branch is ready when the channel holds a message; select!
\* without `biased;` polls its branches in random order.
OutboundReady(i) == rx[i] # <<>>

SelectOutbound(i) ==
  /\ pc[i] = "select"
  /\ OutboundReady(i)
  /\ outbound_message' = [outbound_message EXCEPT ![i] = Recv(rx[i])]
  /\ rx' = [rx EXCEPT ![i] = Tail(@)]
  /\ pc' = [pc EXCEPT ![i] = "send"]
  /\ UNCHANGED <<listenerVars, arrived, has_errored, first, message, clients, lock,
                 written, inserts, removes, dispatches, sent, decoded, dispatched, exit_cause, frames>>

AfterSend_return(ok) == IF ok THEN "select" ELSE "done"

AfterSend_ignore(ok) == "select"

\* Lines 93-96: an Err of send breaks out of the loop, to line 114.
AfterSend(ok) == IF ok THEN "select" ELSE "lock_remove"

\* Line 93: messages.send(outbound_message).await.
Send(i) ==
  /\ pc[i] = "send"
  /\ \E ok \in BOOLEAN :
       /\ written' = [written EXCEPT ![i] =
                        IF ok THEN Append(@, outbound_message[i]) ELSE @]
       /\ pc' = [pc EXCEPT ![i] = AfterSend(ok)]
       /\ exit_cause' = [exit_cause EXCEPT ![i] = IF ok THEN @ ELSE "send"]
  /\ outbound_message' = [outbound_message EXCEPT ![i] = 0]
  /\ UNCHANGED <<listenerVars, arrived, has_errored, first, message, clients, lock, rx,
                 inserts, removes, dispatches, sent, decoded, dispatched, frames>>

\* Lines 98-109: Some(Ok) is handled, Some(Err) is printed and the loop goes
\* on, None breaks.
AfterNext(r) ==
  CASE r.kind = "SomeOk" -> "dispatch"
    [] r.kind = "SomeErr" -> "select"
    [] OTHER -> "lock_remove"

Handled_anyResult(i, r) == IF r.kind = "None" THEN <<>> ELSE <<sent[i]>>

\* Lines 99-100: only the Some(Ok(message)) arm calls handle_message, with
\* the message just decoded.
Handled(i, r) == IF r.kind = "SomeOk" THEN Decoded(i, r) ELSE <<>>

\* Line 98: result = messages.next().
SelectInbound(i) ==
  /\ pc[i] = "select"
  /\ \E r \in Next_(i) :
       /\ message' = [message EXCEPT ![i] = r.msg]
       /\ frames' = frames + Counted(i, r)
       /\ arrived' = [arrived EXCEPT ![i] = Consumed(i, r)]
       /\ has_errored' = [has_errored EXCEPT ![i] = @ \/ r = SomeErr]
       /\ dispatches' = [dispatches EXCEPT ![i] = @ + (IF r.kind = "SomeOk" THEN 1 ELSE 0)]
       /\ exit_cause' = [exit_cause EXCEPT ![i] = IF r = None THEN "eof" ELSE @]
       /\ decoded' = [decoded EXCEPT ![i] = @ \o Decoded(i, r)]
       /\ dispatched' = [dispatched EXCEPT ![i] = @ \o Handled(i, r)]
       /\ pc' = [pc EXCEPT ![i] = AfterNext(r)]
  /\ UNCHANGED <<listenerVars, first, clients, lock, rx, outbound_message,
                 written, inserts, removes, sent>>

\* handle_message is the Dispatcher hook.  Its declared result is
\* Result<(), anyhow::Error>; the body in the source is a stub that prints and
\* returns Ok(()).  The model takes both variants of the declared result, so
\* that the caller's error arm (lines 100-103) is exercised.
handle_message(m) == {"Ok", "Err"}

\* Lines 100-103: an Err of handle_message breaks out of the loop.
AfterDispatch(r) == IF r = "Ok" THEN "select" ELSE "lock_remove"

Dispatch_underLock(i) ==
  /\ pc[i] = "dispatch"
  /\ \/ /\ lock = Free
        /\ lock' = i
        /\ UNCHANGED <<pc, message, exit_cause>>
     \/ /\ lock = i
        /\ lock' = Free
        /\ \E r \in handle_message(message[i]) :
             /\ pc' = [pc EXCEPT ![i] = AfterDispatch(r)]
             /\ exit_cause' = [exit_cause EXCEPT ![i] = IF r = "Ok" THEN @ ELSE "dispatch"]
        /\ message' = [message EXCEPT ![i] = NoMessage]
  /\ UNCHANGED <<listenerVars, arrived, has_errored, first, clients, rx,
                 outbound_message, written, inserts, removes, dispatches, sent, decoded, dispatched,
                 frames>>

\* Line 100: handle_message(&mut messages, message, &address, &state).await.
Dispatch(i) ==
  /\ pc[i] = "dispatch"
  /\ \E r \in handle_message(message[i]) :
       /\ pc' = [pc EXCEPT ![i] = AfterDispatch(r)]
       /\ exit_cause' = [exit_cause EXCEPT ![i] = IF r = "Ok" THEN @ ELSE "dispatch"]
  /\ message' = [message EXCEPT ![i] = NoMessage]
  /\ UNCHANGED <<listenerVars, arrived, has_errored, first, clients, lock, rx,
                 outbound_message, written, inserts, removes, dispatches, sent, decoded, dispatched,
                 frames>>

Remove_keepsEntry(i) ==
  /\ pc[i] = "remove"
  /\ lock = i
  /\ removes' = [removes EXCEPT ![i] = @ + 1]
  /\ lock' = Free
  /\ pc' = [pc EXCEPT ![i] = "done"]
  /\ UNCHANGED <<listenerVars, arrived, has_errored, first, message, rx, clients,
                 outbound_message, written, inserts, dispatches, sent, decoded,
                 dispatched, exit_cause, frames>>

\* Line 114: clients.remove(&address) deletes whatever entry the key has.
Remove(i) ==
  /\ pc[i] = "remove"
  /\ lock = i
  /\ clients' = [clients EXCEPT ![address[i]] = NoClient]
  /\ removes' = [removes EXCEPT ![i] = @ + 1]
  /\ lock' = Free
  /\ pc' = [pc EXCEPT ![i] = "done"]
  /\ UNCHANGED <<listenerVars, arrived, has_errored, first, message, rx,
                 outbound_message, written, inserts, dispatches, sent, decoded, dispatched, exit_cause,
                 frames>>

\* ---------------------------------------------------------------- Dispatcher
\* A component looks the address up in the Registry and sends on the handle's
\* tx; the message is tagged with its position among the channel's messages.
Enqueue(a) ==
  /\ TotalEnqueued < MaxEnq
  /\ lock = Free
  /\ Contains(a)
  /\ LET t == clients[a].tx
     IN /\ pc[t] # "done"
        /\ rx' = [rx EXCEPT ![t] = Append(@, Len(enqueued[t]) + 1)]
        /\ enqueued' = [enqueued EXCEPT ![t] = Append(@, Len(@) + 1)]
  /\ UNCHANGED <<pc, address, peer, arrived, has_errored, first, message,
                 clients, lock, outbound_message, written, inserts, removes,
                 dispatches, sent, decoded, dispatched, exit_cause, accepted, frames, result>>

\* ---------------------------------------------------------------- system
Next ==
  \/ \E a \in Addrs : AcceptOk(a)
  \/ AcceptErr
  \/ \E i \in Conns : PeerClose(i)
  \/ \E i \in Conns : PeerSend(i)
  \/ \E i \in Conns : Handshake(i)
  \/ \E i \in Conns : Lock(i)
  \/ \E i \in Conns : Insert(i)
  \/ \E i \in Conns : SelectOutbound(i)
  \/ \E i \in Conns : Send(i)
  \/ \E i \in Conns : SelectInbound(i)
  \/ \E i \in Conns : Dispatch(i)
  \/ \E i \in Conns : Remove(i)
  \/ \E a \in Addrs : Enqueue(a)

Spec == Init /\ [][Next]_vars

\* The inbound branch of the select at the end of the stream: once the peer
\* is gone, messages.next() is ready with None whenever it is polled.
Eof(i) == peer[i] = "closed" /\ SelectInbound(i) /\ exit_cause'[i] = "eof"

\* The inbound branch of the select with a frame buffered on the socket.
ReadFrame(i) == arrived[i] /\ SelectInbound(i) /\ ~arrived'[i]

\* Scheduling of the tasks: the runtime polls every spawned task that is
\* ready, the tokio Mutex is fair, select! polls its branches in random
\* order, a write on the socket resolves and the stub handle_message returns.
\* Nothing makes a peer send or close.
Fairness ==
  \A i \in Conns :
    /\ WF_vars(Lock(i)) /\ WF_vars(Insert(i)) /\ WF_vars(Remove(i))
    /\ WF_vars(SelectOutbound(i)) /\ WF_vars(Send(i))
    /\ WF_vars(Dispatch(i)) /\ WF_vars(Eof(i)) /\ WF_vars(ReadFrame(i))

FairSpec == Spec /\ Fairness

\* ---------------------------------------------------------------- phases
\* The task is in the multiplex loop (lines 90-112).
Active(i) == pc[i] \in {"select", "send", "dispatch"}

\* The task has inserted and has not removed yet (after line 71, before the
\* end of line 114).
Registered(i) == pc[i] \in {"select", "send", "dispatch", "lock_remove", "remove"}

\* The async block has returned.
Ended(i) == pc[i] \in {"rejected", "done"}

IsPrefix(s, t) == Len(s) <= Len(t) /\ SubSeq(t, 1, Len(s)) = s

\* ---------------------------------------------------------------- claims

\* C1: the Registry has an entry for an address exactly when a Connection
\* Actor spawned for that address is between its insert and its removal.
C1_RegistryConsistency ==
  \A a \in Addrs :
    Contains(a) <=> \E i \in Conns : address[i] = a /\ Registered(i)

\* C2: a task whose first read is anything but a handshake request ends there:
\* it returns from the handshake position with the Registry, the lock and the
\* sockets' output as they were, and a rejected task has never inserted,
\* removed, dispatched or written.
C2_RejectionHasNoRegistryEffect ==
  /\ [](\A i \in Conns :
          pc[i] = "rejected" =>
            /\ ~IsHandshakeRequest(first[i])
            /\ ~SocketOpen(i)
            /\ inserts[i] = 0 /\ removes[i] = 0 /\ dispatches[i] = 0
            /\ written[i] = <<>>
            /\ \A a \in Addrs : clients[a].tx # i)
  /\ [][\A i \in Conns :
          (pc[i] = "handshake" /\ pc'[i] # "handshake"
             /\ ~IsHandshakeRequest(first'[i]))
          => (pc'[i] = "rejected" /\ clients' = clients /\ lock' = lock)]_vars

C2_Witness ==
  \E i, j \in Conns :
    /\ pc[i] = "rejected" /\ first[i] = SomeOk(Other)
    /\ pc[j] = "rejected" /\ first[j].kind \in {"SomeErr", "None"}

\* C3: a task that got its handshake request inserts exactly once, and when
\* it has ended it has removed exactly once; no task inserts or removes twice,
\* and a task in or past the loop has inserted once and not removed before
\* line 114.
C3_ExactlyOnceInsertAndRemoval ==
  \A i \in Conns :
    /\ inserts[i] <= 1 /\ removes[i] <= 1
    /\ Registered(i) => inserts[i] = 1 /\ removes[i] = 0
    /\ (Ended(i) /\ IsHandshakeRequest(first[i])) => inserts[i] = 1 /\ removes[i] = 1
    /\ (Ended(i) /\ ~IsHandshakeRequest(first[i])) => inserts[i] = 0 /\ removes[i] = 0

C3_Witness ==
  \E i, j \in Conns :
    /\ pc[i] = "done" /\ exit_cause[i] = "send" /\ removes[i] = 1
    /\ pc[j] = "done" /\ exit_cause[j] = "eof" /\ has_errored[j] /\ removes[j] = 1

\* A fatal condition of the loop has occurred for the task: the peer closed
\* the stream, the stream yielded an error, or a send or a dispatch failed.
Fatal(i) ==
  Registered(i) /\ (peer[i] = "closed" \/ has_errored[i] \/ exit_cause[i] # "none")

C5_DecodeErrorIsFatal ==
  /\ [](\A i \in Conns : has_errored[i] => ~Active(i))
  /\ [][\A i \in Conns :
          has_errored[i] =>
            (dispatches'[i] = dispatches[i] /\ written'[i] = written[i])]_vars

\* C6: the handle in the Registry carries the steam id of the handshake
\* request of the task that inserted it.
C6_HandshakeBindsIdentity ==
  \A a \in Addrs :
    Contains(a) => clients[a].steam_id = first[clients[a].tx].msg.steam_id

\* C7: an entry of the Registry is never replaced: a step changes an
\* address that has an entry only by removing the entry.
C7_InsertRejectsDuplicates ==
  [][\A a \in Addrs :
       Contains(a) => (clients'[a] = clients[a] \/ clients'[a] = NoClient)]_vars

\* C8: what a task has written to its socket is a prefix of what was
\* enqueued on its channel.
C8_OutboundFifo ==
  \A i \in Conns : IsPrefix(written[i], enqueued[i])

C8_Witness ==
  \E i \in Conns :
    /\ Len(written[i]) >= 2
    /\ dispatches[i] >= 1

\* The step the task d can take at its position does not wait for anything
\* but its own socket, its own channel and a holder of the lock that is about
\* to release it.
Unhindered(d) ==
  /\ (pc[d] = "handshake" /\ Next_(d) # {}) => ENABLED Handshake(d)
  /\ (pc[d] = "select" /\ Next_(d) # {}) => ENABLED SelectInbound(d)
  /\ (pc[d] = "select" /\ rx[d] # <<>>) => ENABLED SelectOutbound(d)
  /\ pc[d] = "send" => ENABLED Send(d)
  /\ pc[d] = "dispatch" => ENABLED Dispatch(d)
  /\ pc[d] = "insert" => ENABLED Insert(d)
  /\ pc[d] = "remove" => ENABLED Remove(d)
  /\ pc[d] \in {"lock_insert", "lock_remove"} =>
       \/ ENABLED Lock(d)
       \/ lock \in Conns /\ ENABLED (Insert(lock) \/ Remove(lock))

\* C9: while handle_message of one connection has not returned, or has
\* failed, that connection does not hold the registry lock at a position
\* where it waits, and every other task can take the step of its position.
C9_ConcurrencyIsolation ==
  \A c \in Conns :
    (pc[c] = "dispatch" \/ exit_cause[c] = "dispatch") =>
      /\ pc[c] = "dispatch" => lock # c
      /\ lock = c => pc[c] = "remove"
      /\ \A d \in Conns \ {c} : Unhindered(d)

C9_Witness ==
  \E c, d \in Conns :
    /\ pc[c] = "dispatch"
    /\ address[d] # address[c]
    /\ pc[d] = "done" /\ Len(written[d]) >= 1

C11_ListenerNeverWaits ==
  /\ [](accepted < MaxConns =>
          \A a \in Addrs : AddressAvailable(a) => ENABLED AcceptOk(a))
  /\ [][accepted' # accepted =>
          /\ accepted' = accepted + 1
          /\ pc'[accepted'] = "handshake" /\ first'[accepted'] = NotRead
          /\ \A j \in Conns \ {accepted'} : pc'[j] = pc[j]]_vars

C11_Witness ==
  /\ pc[1] = "handshake" /\ ~arrived[1] /\ peer[1] = "open"
  /\ pc[2] = "dispatch"

\* C12: an accept() error changes nothing but what the Listener prints: no
\* task is spawned, the Registry, the lock and every task are as they were,
\* and after it the Listener still accepts a connection the kernel has ready.
C12_AcceptErrorIsNotFatal ==
  /\ [][(result' = "Err" /\ result # "Err") =>
          /\ accepted' = accepted /\ clients' = clients /\ lock' = lock
          /\ pc' = pc /\ rx' = rx /\ written' = written /\ peer' = peer]_vars
  /\ [](result = "Err" =>
          /\ accepted < MaxConns
          /\ \A a \in Addrs : AddressAvailable(a) => ENABLED AcceptOk(a))

C12_Witness ==
  /\ result = "Err"
  /\ \E i \in Conns : Active(i) /\ Contains(address[i])

\* C13: a task whose send failed is out of the loop; from then on it writes
\* nothing and dispatches nothing, its removal leaves its address without an
\* entry, and once it has ended no entry holds its sender.
C13_WriteFailureIsFatal ==
  /\ [](\A i \in Conns :
          exit_cause[i] = "send" =>
            /\ ~Active(i)
            /\ pc[i] = "done" => (removes[i] = 1 /\ \A a \in Addrs : clients[a].tx # i))
  /\ [][\A i \in Conns :
          exit_cause[i] = "send" =>
            /\ written'[i] = written[i] /\ dispatches'[i] = dispatches[i]
            /\ (pc[i] = "remove" /\ pc'[i] = "done") => clients'[address[i]] = NoClient]_vars

C13_Witness ==
  \E i \in Conns :
    /\ exit_cause[i] = "send" /\ pc[i] = "done"
    /\ rx[i] # <<>> /\ arrived[i]

\* C14: whoever holds the registry lock is at the insert of line 71 or the
\* remove of line 114, never at a read, a write, a recv or a dispatch; that
\* step is enabled and releases the lock, and a task that waits for a free
\* lock can take it.
C14_LockNotHeldAcrossIo ==
  /\ [](lock \in Conns =>
          /\ pc[lock] \in {"insert", "remove"}
          /\ ENABLED (Insert(lock) \/ Remove(lock)))
  /\ [](\A i \in Conns :
          (pc[i] \in {"lock_insert", "lock_remove"} /\ lock = Free) => ENABLED Lock(i))
  /\ [][(lock \in Conns /\ pc'[lock] # pc[lock]) => lock' = Free]_vars

C14_Witness ==
  \E i, j \in Conns :
    /\ lock = i /\ pc[i] = "remove"
    /\ pc[j] \in {"lock_insert", "lock_remove"}

\* C15: a task dispatches only after its handshake request and its insert,
\* a task before its insert or rejected has dispatched nothing, and when
\* handle_message is called the Registry has an entry for the task's address.
C15_HandshakePrecedesDispatch ==
  /\ [](\A i \in Conns :
          /\ dispatches[i] > 0 => (IsHandshakeRequest(first[i]) /\ inserts[i] = 1)
          /\ pc[i] \in {"idle", "handshake", "rejected", "lock_insert", "insert"}
               => dispatches[i] = 0)
  /\ [][\A i \in Conns :
          (pc[i] # "dispatch" /\ pc'[i] = "dispatch") => Contains(address[i])']_vars

\* C16: the first message a connection decodes is taken by the handshake
\* step and is never passed to handle_message; the messages passed to
\* handle_message are a prefix of the messages decoded after it, in arrival
\* order, each at most once.
C16_InboundOnceInOrder ==
  \A i \in Conns :
    /\ pc[i] \in {"idle", "handshake", "rejected", "lock_insert", "insert"}
         => dispatched[i] = <<>>
    /\ decoded[i] = <<>> => dispatched[i] = <<>>
    /\ decoded[i] # <<>> =>
         /\ first[i].kind = "SomeOk"
         /\ IsPrefix(dispatched[i], Tail(decoded[i]))
         /\ \A k \in 1..Len(dispatched[i]) : dispatched[i][k] # decoded[i][1]
    /\ \A k, l \in 1..Len(dispatched[i]) :
         k < l => dispatched[i][k] < dispatched[i][l]
    /\ Len(dispatched[i]) = dispatches[i]

C16_Witness ==
  \E i \in Conns : Len(dispatched[i]) = 2 /\ decoded[i] = <<1, 2, 3>>

C18_ClosureOnlyAsFailedEnqueue ==
  /\ [](\A i \in Conns :
          /\ Cardinality({a \in Addrs : clients[a].tx = i}) <= 1
          /\ \A a \in Addrs :
               clients[a].tx = i => (a = address[i] /\ Registered(i))
          /\ pc[i] = "done" => \A a \in Addrs : clients[a].tx # i)
  /\ [][\A i \in Conns :
          /\ removes'[i] # removes[i] => ~Contains(address[i])'
          /\ enqueued'[i] # enqueued[i] =>
               (clients[address[i]].tx = i /\ removes[i] = 0)
          /\ pc[i] \in {"lock_remove", "remove", "done"} =>
               written'[i] = written[i]]_vars

C18_Witness ==
  \E i \in Conns :
    /\ pc[i] = "done" /\ removes[i] = 1
    /\ rx[i] # <<>> /\ written[i] # <<>>

\* C19: the entry a task's removal deletes is the entry this task inserted,
\* and the removal leaves the entries other tasks inserted in place.
C19_RemovalDeletesOnlyOwnEntry ==
  [][\A i \in Conns :
       removes'[i] # removes[i] =>
         /\ clients[address[i]].tx = i
         /\ \A a \in Addrs :
              (Contains(a) /\ clients[a].tx # i) => clients'[a] = clients[a]]_vars

\* C20: whatever a task has written to its socket was enqueued on its channel
\* before; nothing is written before the handshake has succeeded, the
\* handshake step writes no response whether it accepts or rejects, and a
\* dispatch writes nothing: the only step that writes is the send of the
\* message taken from the channel.
C20_ActorNeverOriginatesWrite ==
  /\ [](\A i \in Conns :
          /\ Len(written[i]) <= Len(enqueued[i])
          /\ \A k \in 1..Len(written[i]) :
               \E l \in 1..Len(enqueued[i]) : enqueued[i][l] = written[i][k]
          /\ pc[i] \in {"idle", "handshake", "rejected", "lock_insert", "insert"}
               => written[i] = <<>>)
  /\ [][\A i \in Conns :
          /\ pc[i] \in {"handshake", "dispatch"} => written'[i] = written[i]
          /\ written'[i] # written[i] =>
               /\ pc[i] = "send"
               /\ written'[i] = Append(written[i], outbound_message[i])
               /\ \E l \in 1..Len(enqueued[i]) :
                    enqueued[i][l] = outbound_message[i]]_vars

C20_Witness ==
  \E i, j \in Conns :
    /\ pc[i] = "select" /\ written[i] # <<>> /\ dispatched[i] # <<>>
    /\ pc[j] = "rejected" /\ first[j].kind = "SomeOk"
====
